---- MODULE Spec2Model ----
(***************************************************************************)
(* Model of src/llm/json_schema_to_gbnf.py: the conversion of a JSON       *)
(* Schema document (the tree json.loads / yaml.safe_load returns) into a   *)
(* GBNF-style grammar string.                                              *)
(*                                                                         *)
(* Python values are tagged records [k |-> kind, v |-> payload].  A dict   *)
(* is the sequence of its <<key, value>> items in insertion order.  A      *)
(* Python string built by an f-string or a join is the sequence of the     *)
(* pieces it is concatenated from ("tokens"): the literal pieces of the    *)
(* source and the str() of the interpolated values.  A call's outcome is   *)
(* [exc |-> "", out |-> tokens] for a return and [exc |-> class,           *)
(* out |-> message tokens] for a raised exception.                         *)
(***************************************************************************)
EXTENDS Integers, Sequences, FiniteSets, TLC

VARIABLES schema, pc, gbnf, error

vars == <<schema, pc, gbnf, error>>

\* ------------------------------------------------------------ bounds

\* Largest number of declared properties of one object node.
MaxProps == 2
\* minItems / maxItems range over 0 .. MaxItems.
MaxItems == 2
\* Largest number of enum members of a string node.
MaxEnum == 2
\* Number of times a schema is wrapped into an enclosing node.
MaxDepth == 1

\* ------------------------------------------------------------ Python values

JStr(s) == [k |-> "str", v |-> s]
JInt(n) == [k |-> "int", v |-> n]
JBool(b) == [k |-> "bool", v |-> b]
JList(s) == [k |-> "list", v |-> s]
JDict(s) == [k |-> "dict", v |-> s]
JNull == [k |-> "null", v |-> <<>>]

\* isinstance(x, dict), isinstance(x, bool)
IsDict(x) == x.k = "dict"
IsBool(x) == x.k = "bool"

\* bool(x): Python truthiness.
Truthy(x) ==
  CASE x.k = "bool" -> x.v
    [] x.k = "int" -> x.v # 0
    [] x.k = "str" -> x.v # ""
    [] x.k = "list" -> x.v # <<>>
    [] x.k = "dict" -> x.v # <<>>
    [] x.k = "null" -> FALSE

\* x == n for an int literal n (a bool compares as 0 / 1).
PyEq(x, n) ==
  CASE x.k = "int" -> x.v = n
    [] x.k = "bool" -> (IF x.v THEN 1 ELSE 0) = n
    [] OTHER -> FALSE

\* x != s for a str literal s.
PyNeStr(x, s) == ~(x.k = "str" /\ x.v = s)

\* Then(x) for the value x of an expression evaluated once (a Python local:
\* items_type, property_rule, the caught exception, a dict looked into).
Bind(value, Then(_)) == CHOOSE result \in {Then(x) : x \in {value}} : TRUE

\* key in d, for a dict d.
HasKey(d, key) == \E items \in {d.v} : \E i \in 1..Len(items) : items[i][1] = key

\* d[key], for a dict d that has the key.
Item(d, key) ==
  Bind(d.v, LAMBDA items : items[CHOOSE i \in 1..Len(items) : items[i][1] = key][2])

\* d.get(key, default), for a dict d.
Get(d, key, default) ==
  Bind(d, LAMBDA dict : IF HasKey(dict, key) THEN Item(dict, key) ELSE default)

Digit == <<"0", "1", "2", "3", "4", "5", "6", "7", "8", "9">>

\* str(n) of a non-negative int.
RECURSIVE IntStr(_)
IntStr(n) == IF n < 10 THEN Digit[n + 1] ELSE IntStr(n \div 10) \o Digit[(n % 10) + 1]

\* {x} inside an f-string: str(x) of a scalar.
PyStr(x) ==
  CASE x.k = "str" -> x.v
    [] x.k = "int" -> IntStr(x.v)
    [] x.k = "bool" -> IF x.v THEN "True" ELSE "False"
    [] x.k = "null" -> "None"

\* sep.join(parts), each part a token sequence.
RECURSIVE Join(_, _)
Join(parts, sep) ==
  IF parts = <<>> THEN <<>>
  ELSE IF Len(parts) = 1 THEN parts[1]
  ELSE parts[1] \o <<sep>> \o Join(Tail(parts), sep)

\* ------------------------------------------------------------ outcomes

Return(tokens) == [exc |-> "", out |-> tokens]
Raise(class, message) == [exc |-> class, out |-> message]
Raised(r) == r.exc # ""

\* ------------------------------------------------------------ the converter

RECURSIVE process_property(_, _, _)
RECURSIVE process_type(_)
RECURSIVE process_array(_)
RECURSIVE process_object(_)
RECURSIVE process_rules(_, _, _, _)

process_ref(ref) == Return(<<"<ref>">>)

enum_values(values) ==
  Join([i \in 1..Len(values) |-> <<"\"", PyStr(values[i]), "\"">>], " | ")

\* process_string with the pattern test moved above the enum test.
process_string_pattern_first(definition) ==
  IF HasKey(definition, "pattern")
  THEN Return(<<"<pattern ", PyStr(Item(definition, "pattern")), ">">>)
  ELSE IF HasKey(definition, "enum")
  THEN Return(<<"[">> \o enum_values(Item(definition, "enum").v) \o <<"]">>)
  ELSE IF HasKey(definition, "format")
  THEN LET f == Item(definition, "format")
       IN  Return(<<CASE f = JStr("date-time") -> "<datetime>"
                      [] f = JStr("date") -> "<date>"
                      [] f = JStr("email") -> "<email>"
                      [] f = JStr("uri") -> "<uri>"
                      [] OTHER -> "<string>">>)
  ELSE Return(<<"<string>">>)

process_string(definition) ==
  IF HasKey(definition, "enum")
  THEN Return(<<"[">> \o enum_values(Item(definition, "enum").v) \o <<"]">>)
  ELSE IF HasKey(definition, "pattern")
  THEN Return(<<"<pattern ", PyStr(Item(definition, "pattern")), ">">>)
  ELSE IF HasKey(definition, "format")
  THEN LET f == Item(definition, "format")
       IN  Return(<<CASE f = JStr("date-time") -> "<datetime>"
                      [] f = JStr("date") -> "<date>"
                      [] f = JStr("email") -> "<email>"
                      [] f = JStr("uri") -> "<uri>"
                      [] OTHER -> "<string>">>)
  ELSE Return(<<"<string>">>)

\* The keys of type_handlers.
HandledTypes == {"string", "integer", "number", "boolean", "null", "array", "object"}

\* type_handlers.get(prop_type, process_string): an unknown type falls back
\* to the string handler.
type_handlers_get_default(prop_type) ==
  IF prop_type.k = "str" /\ prop_type.v \in HandledTypes THEN prop_type.v ELSE "string"

\* type_handlers.get(prop_type), for a hashable prop_type: the key found,
\* or "None".
type_handlers_get(prop_type) ==
  IF prop_type.k = "str" /\ prop_type.v \in HandledTypes THEN prop_type.v ELSE "None"

\* handler(definition)
call_handler(handler, definition) ==
  CASE handler = "string" -> process_string(definition)
    [] handler = "integer" -> Return(<<"<integer>">>)
    [] handler = "number" -> Return(<<"<number>">>)
    [] handler = "boolean" -> Return(<<"<boolean>">>)
    [] handler = "null" -> Return(<<"null">>)
    [] handler = "array" -> process_array(definition)
    [] handler = "object" -> process_object(definition)

\* "type" not in definition: a dict tests its keys, a list its elements, a
\* str its substrings (the strings of this model are atoms: only the string
\* "type" itself contains it); an int, a bool or None is not iterable.
process_type(definition) ==
  CASE definition.k \in {"int", "bool", "null"} ->
         Raise("TypeError", <<"argument of type '", definition.k, "' is not iterable">>)
    [] definition.k = "list" ->
         IF \E i \in 1..Len(definition.v) : definition.v[i] = JStr("type")
         THEN Raise("TypeError", <<"list indices must be integers or slices, not str">>)
         ELSE Raise("ValueError", <<"Missing type in definition">>)
    [] definition.k = "str" ->
         IF definition.v = "type"
         THEN Raise("TypeError", <<"string indices must be integers">>)
         ELSE Raise("ValueError", <<"Missing type in definition">>)
    [] definition.k = "dict" ->
         IF ~HasKey(definition, "type")
         THEN Raise("ValueError", <<"Missing type in definition">>)
         ELSE Bind(Item(definition, "type"), LAMBDA prop_type :
                IF prop_type.k \in {"list", "dict"}
                THEN Raise("TypeError", <<"unhashable type: '", prop_type.k, "'">>)
                ELSE Bind(type_handlers_get(prop_type), LAMBDA handler :
                       IF handler = "None"
                       THEN Raise("ValueError", <<"Unsupported type: ", PyStr(prop_type)>>)
                       ELSE call_handler(handler, definition)))

process_array(definition) ==
  IF ~HasKey(definition, "items")
  THEN Raise("ValueError", <<"Array definition missing items">>)
  ELSE Bind(Item(definition, "items"), LAMBDA items :
       Bind(process_type(items), LAMBDA items_type :
         LET min_items == Get(definition, "minItems", JInt(0))
             max_items == Get(definition, "maxItems", JStr(""))
         IN  IF Raised(items_type) THEN items_type
             ELSE IF PyEq(min_items, 0) /\ ~Truthy(max_items)
             THEN Return(<<"[">> \o items_type.out \o <<"*]">>)
             ELSE IF PyEq(min_items, 1) /\ ~Truthy(max_items)
             THEN Return(<<"[">> \o items_type.out \o <<"+]">>)
             ELSE Return(<<"[">> \o items_type.out \o <<"]">>)))

\* process_property that looks at a definition's type before its $ref.
process_property_type_first(name, definition, is_required) ==
  IF ~IsDict(definition)
  THEN Raise("ValueError", <<"Invalid property definition for ", name>>)
  ELSE IF HasKey(definition, "$ref") /\ ~HasKey(definition, "type")
  THEN process_ref(Item(definition, "$ref"))
  ELSE Bind(process_type(definition), LAMBDA t :
         IF Raised(t) THEN t
         ELSE IF ~is_required
         THEN Return(<<"\"", name, "\" : ">> \o t.out \o <<" | ε">>)
         ELSE Return(<<"\"", name, "\" : ">> \o t.out))

process_property(name, definition, is_required) ==
  IF ~IsDict(definition)
  THEN Raise("ValueError", <<"Invalid property definition for ", name>>)
  ELSE IF HasKey(definition, "$ref")
  THEN process_ref(Item(definition, "$ref"))
  ELSE Bind(process_type(definition), LAMBDA t :
         IF Raised(t) THEN t
         ELSE IF ~is_required
         THEN Return(<<"\"", name, "\" : ">> \o t.out \o <<" | ε">>)
         ELSE Return(<<"\"", name, "\" : ">> \o t.out))

\* The loop over properties.items(): rules holds the members appended so
\* far, i is the index of the next item.  A ValueError of process_property
\* is caught and re-raised with the property's name; any other exception
\* propagates as it is.
process_rules(properties, required, i, rules) ==
  IF i > Len(properties.v) THEN Return(rules)
  ELSE Bind(properties.v[i], LAMBDA item :
         LET name == item[1]
             prop == item[2]
         IN  Bind(process_property(name, prop, JStr(name) \in required), LAMBDA r :
               IF r.exc = "ValueError"
               THEN Raise("ValueError",
                          <<"Error processing property '", name, "': ">> \o r.out)
               ELSE IF Raised(r) THEN r
               ELSE process_rules(properties, required, i + 1, Append(rules, r.out))))

\* additional_rules that handles only a schema node: the boolean true adds
\* no member.
additional_rules_schema_only(definition) ==
  Bind(Get(definition, "additionalProperties", JDict(<<>>)), LAMBDA additional_props :
    IF Truthy(additional_props) /\ ~IsBool(additional_props)
    THEN Bind(process_type(additional_props), LAMBDA t :
           IF Raised(t) THEN t
           ELSE Return(<< <<"\"*\" : ">> \o t.out >>))
    ELSE Return(<<>>))

\* The members added for additionalProperties, or the exception of compiling it.
additional_rules(definition) ==
  Bind(Get(definition, "additionalProperties", JDict(<<>>)), LAMBDA additional_props :
    IF Truthy(additional_props)
    THEN IF IsBool(additional_props)
         THEN IF additional_props.v THEN Return(<< <<"\"*\" : <any>">> >>)
              ELSE Return(<<>>)
         ELSE Bind(process_type(additional_props), LAMBDA t :
                IF Raised(t) THEN t
                ELSE Return(<< <<"\"*\" : ">> \o t.out >>))
    ELSE Return(<<>>))

\* process_object that tests for emptiness after additionalProperties was
\* handled: "if not rules" in place of "if not properties".
process_object_late_empty(definition) ==
  Bind(Get(definition, "properties", JDict(<<>>)), LAMBDA properties :
    LET required == LET l == Get(definition, "required", JList(<<>>))
                    IN  {l.v[i] : i \in 1..Len(l.v)}
    IN  Bind(process_rules(properties, required, 1, <<>>), LAMBDA declared :
          IF Raised(declared) THEN declared
          ELSE Bind(additional_rules(definition), LAMBDA extra :
                 IF Raised(extra) THEN extra
                 ELSE IF declared.out \o extra.out = <<>> THEN Return(<<"{}">>)
                 ELSE Return(<<"{ ">> \o Join(declared.out \o extra.out, ", ")
                             \o <<" }">>))))

process_object(definition) ==
  Bind(Get(definition, "properties", JDict(<<>>)), LAMBDA properties :
    LET required == LET l == Get(definition, "required", JList(<<>>))
                    IN  {l.v[i] : i \in 1..Len(l.v)}
    IN  IF ~Truthy(properties) THEN Return(<<"{}">>)
        ELSE Bind(process_rules(properties, required, 1, <<>>), LAMBDA declared :
               IF Raised(declared) THEN declared
               ELSE Bind(additional_rules(definition), LAMBDA extra :
                      IF Raised(extra) THEN extra
                      ELSE Return(<<"{ ">> \o Join(declared.out \o extra.out, ", ")
                                  \o <<" }">>))))

\* ------------------------------------------------------------ the schemas

\* The items of an optional key: absent, or present with one of the values.
Opt(key, values) == {<<>>} \cup {<< <<key, x>> >> : x \in values}

Names == <<"a", "b", "c", "d">>
PropNames == {Names[i] : i \in 1..MaxProps}

TypeOf(t) == << <<"type", JStr(t)>> >>

StrDef == JDict(TypeOf("string"))
IntDef == JDict(TypeOf("integer"))
RefDef == JDict(<< <<"$ref", JStr("#")>> >>)
\* A $ref beside keys that would not compile.
RefJunkDef == JDict(<< <<"$ref", JStr("#")>>, <<"type", JStr("tuple")>> >>)
EmptyDef == JDict(<<>>)
\* A non-empty node without type.
NoTypeDef == JDict(<< <<"description", JStr("d")>> >>)
BadTypeDef == JDict(TypeOf("tuple"))
\* JSON Schema's list form of type.
ListTypeDef == JDict(<< <<"type", JList(<<JStr("string"), JStr("null")>>)>> >>)

EnumValues == {JStr("x"), JStr("y")}
EnumLists == UNION {{JList(s) : s \in [1..n -> EnumValues]} : n \in 0..MaxEnum}
Formats == {JStr("date-time"), JStr("date"), JStr("email"), JStr("uri"), JStr("ipv4")}

StringDefs ==
  {JDict(TypeOf("string") \o e \o p \o f) :
     e \in Opt("enum", EnumLists), p \in Opt("pattern", {JStr("[a-z]+")}),
     f \in Opt("format", Formats)}

ItemCounts == {JInt(n) : n \in 0..MaxItems}

ArrayDefs(items) ==
  {JDict(TypeOf("array") \o it \o mn \o mx) :
     it \in Opt("items", items), mn \in Opt("minItems", ItemCounts),
     mx \in Opt("maxItems", ItemCounts)}

\* The property mappings of at most MaxProps distinct names over defs, in
\* every declaration order.
PropLists(defs) ==
  UNION {{[i \in 1..n |-> <<ns[i], ds[i]>>] :
            ns \in {q \in [1..n -> PropNames] : \A i, j \in 1..n : q[i] = q[j] => i = j},
            ds \in [1..n -> defs]} : n \in 0..MaxProps}

\* The required lists: the subsets of the names, in the order of Names.
RECURSIVE SetToList(_, _)
SetToList(S, i) ==
  IF i > Len(Names) THEN <<>>
  ELSE (IF Names[i] \in S THEN <<JStr(Names[i])>> ELSE <<>>) \o SetToList(S, i + 1)

RequiredLists == {SetToList(S, 1) : S \in SUBSET PropNames}

ObjectDef(props, required, additional) ==
  JDict(TypeOf("object")
        \o (IF props = <<>> THEN <<>> ELSE << <<"properties", JDict(props)>> >>)
        \o (IF required = <<>> THEN <<>> ELSE << <<"required", JList(required)>> >>)
        \o additional)

Additionals ==
  Opt("additionalProperties", {JBool(TRUE), JBool(FALSE), EmptyDef, StrDef, NoTypeDef})

\* Objects of several properties over the leaf definitions.
CoreObjects ==
  {ObjectDef(p, r, a) : p \in PropLists({StrDef, RefDef, EmptyDef}),
                        r \in RequiredLists, a \in Additionals}

\* Objects of one property over every string and array variant.
WideLeaves ==
  StringDefs
  \cup ArrayDefs({StrDef, NoTypeDef, ListTypeDef, JInt(3), JList(<<>>)})
  \cup {JDict(TypeOf(t)) : t \in {"integer", "number", "boolean", "null"}}
  \cup {BadTypeDef, ListTypeDef, RefJunkDef, JStr("string"), JDict(TypeOf("object"))}

WideObjects ==
  {ObjectDef(<< <<"a", d>> >>, r, <<>>) : d \in WideLeaves, r \in {<<>>, <<JStr("a")>>}}

\* One more level of nesting around x: as an optional or a required
\* property, as the items of an array property, as the additionalProperties
\* schema.
Wrap(x, way) ==
  CASE way = 1 -> ObjectDef(<< <<"o", x>> >>, <<>>, <<>>)
    [] way = 2 -> ObjectDef(<< <<"o", x>> >>, <<JStr("o")>>, <<>>)
    [] way = 3 -> ObjectDef(<< <<"o", JDict(TypeOf("array") \o << <<"items", x>> >>)>> >>,
                            <<>>, <<>>)
    [] way = 4 -> ObjectDef(<< <<"a", IntDef>> >>, <<JStr("a")>>,
                            << <<"additionalProperties", x>> >>)

\* The objects that get nested: those of CoreObjects that vary either the
\* declared properties or additionalProperties.
Seeds ==
  {x \in CoreObjects :
     \/ ~HasKey(x, "additionalProperties")
     \/ Len(Get(x, "properties", JDict(<<>>)).v) <= 1}

\* The seeds under exactly d levels of nesting.
RECURSIVE Nested(_)
Nested(d) ==
  IF d = 0 THEN Seeds
  ELSE {Wrap(x, way) : x \in Nested(d - 1), way \in 1..4}

\* Roots json_schema_to_gbnf rejects at once.
BadRoots ==
  { JNull, JList(<<>>), JStr("object"), EmptyDef, StrDef, ListTypeDef,
    JDict(<< <<"properties", JDict(<< <<"a", StrDef>> >>)>> >>),
    JDict(TypeOf("array") \o << <<"items", JDict(TypeOf("object"))>> >>) }

\* The documents the converter is called with.
IsSchema(x) ==
  \/ x \in CoreObjects
  \/ x \in WideObjects
  \/ x \in BadRoots
  \/ \E d \in 1..MaxDepth : x \in Nested(d)

\* ------------------------------------------------------------ json_schema_to_gbnf

None == <<>>

Init ==
  /\ IsSchema(schema)
  /\ pc = "called"
  /\ gbnf = None
  /\ error = None

\* if not isinstance(schema, dict): raise ValueError
NotADictionary ==
  /\ pc = "called"
  /\ ~IsDict(schema)
  /\ error' = Raise("ValueError", <<"Schema must be a dictionary">>)
  /\ pc' = "raised"
  /\ UNCHANGED <<schema, gbnf>>

\* if schema.get("type") != "object": raise ValueError
NotAnObjectType ==
  /\ pc = "called"
  /\ IsDict(schema)
  /\ LET t == Get(schema, "type", JNull) IN PyNeStr(t, "object")
  /\ error' = Raise("ValueError", <<"Root schema must be an object type">>)
  /\ pc' = "raised"
  /\ UNCHANGED <<schema, gbnf>>

\* The type test with schema.get("type", "object"): a root without type
\* passes.
EnterTry_default_object ==
  /\ pc = "called"
  /\ IsDict(schema)
  /\ ~PyNeStr(Get(schema, "type", JStr("object")), "object")
  /\ pc' = "try"
  /\ UNCHANGED <<schema, gbnf, error>>

\* Both checks passed: the try block is entered.
EnterTry ==
  /\ pc = "called"
  /\ IsDict(schema)
  /\ ~PyNeStr(Get(schema, "type", JNull), "object")
  /\ pc' = "try"
  /\ UNCHANGED <<schema, gbnf, error>>

\* return process_object(schema)
ReturnObject ==
  /\ pc = "try"
  /\ \E r \in {process_object(schema)} :
       /\ ~Raised(r)
       /\ gbnf' = r.out
  /\ pc' = "returned"
  /\ UNCHANGED <<schema, error>>

\* except Exception as e: raise ValueError(f"Error processing schema: {str(e)}")
ReraiseException ==
  /\ pc = "try"
  /\ \E e \in {process_object(schema)} :
       /\ Raised(e)
       /\ error' = Raise("ValueError", <<"Error processing schema: ">> \o e.out)
  /\ pc' = "raised"
  /\ UNCHANGED <<schema, gbnf>>

Next ==
  \/ NotADictionary
  \/ NotAnObjectType
  \/ EnterTry
  \/ ReturnObject
  \/ ReraiseException

Spec == Init /\ [][Next]_vars

\* The call runs to its end: nothing suspends it.
FairSpec == Spec /\ WF_vars(Next)

\* ------------------------------------------------------------ reading the grammar back

Last(t) == t[Len(t)]

\* The members of an object fragment's inside: the pieces between the ", "
\* separators that are not inside a nested object.
RECURSIVE MembersFrom(_, _, _, _, _)
MembersFrom(t, i, depth, cur, acc) ==
  IF i > Len(t) THEN (IF cur = <<>> THEN acc ELSE Append(acc, cur))
  ELSE IF t[i] = ", " /\ depth = 0
  THEN MembersFrom(t, i + 1, depth, <<>>, Append(acc, cur))
  ELSE MembersFrom(t, i + 1,
                   depth + (IF t[i] = "{ " THEN 1 ELSE IF t[i] = " }" THEN -1 ELSE 0),
                   Append(cur, t[i]), acc)

\* The members of the object fragment { m1, m2, ... }; none for {}.
Members(frag) ==
  IF Len(frag) < 2 \/ frag[1] # "{ " \/ Last(frag) # " }" THEN <<>>
  ELSE MembersFrom(SubSeq(frag, 2, Len(frag) - 1), 1, 0, <<>>, <<>>)

\* Whether member m is "<name>" : <fragment>, with or without the marker.
HasKeyOf(m, name) == Len(m) >= 4 /\ SubSeq(m, 1, 3) = <<"\"", name, "\" : ">>

IsOptional(m) == m # <<>> /\ Last(m) = " | ε"

\* The value fragment of a member: without its key and its optional marker.
MemberValue(m) ==
  LET body == IF Len(m) >= 4 /\ m[1] = "\"" /\ m[3] = "\" : " THEN SubSeq(m, 4, Len(m))
              ELSE IF Len(m) >= 2 /\ m[1] = "\"*\" : " THEN Tail(m)
              ELSE m
  IN  IF IsOptional(body) THEN SubSeq(body, 1, Len(body) - 1) ELSE body

Properties(node) == Get(node, "properties", JDict(<<>>)).v
RequiredNames(node) ==
  LET l == Get(node, "required", JList(<<>>)) IN {l.v[i].v : i \in 1..Len(l.v)}
IsType(node, t) == IsDict(node) /\ HasKey(node, "type") /\ Item(node, "type") = JStr(t)
IsRef(node) == IsDict(node) /\ HasKey(node, "$ref")

\* The typed nodes that contributed to fragment frag of node, each with the
\* fragment emitted for it: the i-th member of an object belongs to its i-th
\* declared property, the member after those to additionalProperties, the
\* inside of an array's brackets to its items.
RECURSIVE Emitted(_, _)
Emitted(node, frag) ==
  IF ~IsDict(node) \/ ~HasKey(node, "type") THEN {}
  ELSE {<<node, frag>>} \cup
       CASE IsType(node, "object") ->
              LET props == Properties(node)
                  ms == Members(frag)
                  extra == Get(node, "additionalProperties", JBool(FALSE))
              IN  UNION {IF i <= Len(ms) /\ ~IsRef(props[i][2])
                         THEN Emitted(props[i][2], MemberValue(ms[i])) ELSE {} :
                           i \in 1..Len(props)}
                  \cup (IF props # <<>> /\ IsDict(extra) /\ Len(ms) = Len(props) + 1
                        THEN Emitted(extra, MemberValue(Last(ms))) ELSE {})
         [] IsType(node, "array") /\ HasKey(node, "items") /\ Len(frag) >= 2 ->
              Emitted(Item(node, "items"), SubSeq(frag, 2, Len(frag) - 1))
         [] OTHER -> {}

\* The nodes of the returned grammar, with their fragments.
EmittedNodes == IF pc = "returned" THEN Emitted(schema, gbnf) ELSE {}

\* Every dict below node, whether or not the converter looks at it.
RECURSIVE AllNodes(_)
AllNodes(node) ==
  IF node.k = "dict"
  THEN {node} \cup UNION {AllNodes(node.v[i][2]) : i \in 1..Len(node.v)}
  ELSE {}

Done == pc \in {"returned", "raised"}

\* ------------------------------------------------------------ claims

\* C6: for every string node the emitted fragment is the first applicable of:
\* enum present -> the bracketed alternation of the quoted enum values in
\* declaration order; else pattern present -> the pattern marker with the raw
\* pattern text; else format present -> <datetime>, <date>, <email>, <uri>
\* for date-time, date, email, uri and <string> for any other value; else
\* <string>.  Constraints of lower priority never change the result.
StringFragment(node) ==
  CASE HasKey(node, "enum") ->
         LET e == Item(node, "enum").v
         IN  <<"[">> \o Join([i \in 1..Len(e) |-> <<"\"", e[i].v, "\"">>], " | ") \o <<"]">>
    [] ~HasKey(node, "enum") /\ HasKey(node, "pattern") ->
         <<"<pattern ", Item(node, "pattern").v, ">">>
    [] ~HasKey(node, "enum") /\ ~HasKey(node, "pattern") /\ HasKey(node, "format") ->
         LET f == Item(node, "format").v
         IN  IF f = "date-time" THEN <<"<datetime>">>
             ELSE IF f = "date" THEN <<"<date>">>
             ELSE IF f = "email" THEN <<"<email>">>
             ELSE IF f = "uri" THEN <<"<uri>">>
             ELSE <<"<string>">>
    [] OTHER -> <<"<string>">>

C6_StringPrecedence ==
  \A e \in EmittedNodes : IsType(e[1], "string") => e[2] = StringFragment(e[1])

\* A grammar was returned for a string node that carries enum, pattern and
\* format at once.
C6_Witness ==
  \E e \in EmittedNodes :
    /\ IsType(e[1], "string")
    /\ HasKey(e[1], "enum") /\ HasKey(e[1], "pattern") /\ HasKey(e[1], "format")
    /\ e[2] = <<"[", "\"", "x", "\"", " | ", "\"", "y", "\"", "]">>

\* C7: for every input whose root is not a map, or whose root type is
\* missing or different from object, json_schema_to_gbnf fails with
\* InvalidSchema before any property is compiled and returns no grammar.
InvalidRoot == ~IsDict(schema) \/ ~HasKey(schema, "type") \/ Item(schema, "type") # JStr("object")

InvalidSchema ==
  { Raise("ValueError", <<"Schema must be a dictionary">>),
    Raise("ValueError", <<"Root schema must be an object type">>) }

C7_InvalidRootRejected ==
  InvalidRoot =>
    /\ pc \in {"called", "raised"}
    /\ gbnf = None
    /\ pc = "raised" => error \in InvalidSchema

\* A map whose type is not object, with properties that would compile, was
\* rejected.
C7_Witness ==
  /\ pc = "raised" /\ IsDict(schema) /\ ~HasKey(schema, "type")
  /\ HasKey(schema, "properties")
  /\ error = Raise("ValueError", <<"Root schema must be an object type">>)

\* C8: for every object node (root or nested) whose properties mapping is
\* empty or absent, the emitted fragment is exactly {} whatever the value of
\* additionalProperties (true, false, a valid or an invalid schema node): no
\* wildcard member is emitted and no error is raised.
NoProperties(node) == IsType(node, "object") /\ Properties(node) = <<>>

C8_EmptyObject ==
  /\ \A e \in EmittedNodes : NoProperties(e[1]) => e[2] = <<"{}">>
  /\ Done /\ ~InvalidRoot /\ NoProperties(schema) => pc = "returned"
  /\ Done => \A n \in AllNodes(schema) :
               NoProperties(n) => process_object(n) = Return(<<"{}">>)

\* A grammar was returned in which a nested object without properties, whose
\* additionalProperties is a node without type, became {}.
C8_Witness ==
  \E e \in EmittedNodes :
    /\ e[1] # schema /\ NoProperties(e[1])
    /\ Get(e[1], "additionalProperties", JNull) = NoTypeDef
    /\ e[2] = <<"{}">>

\* C1: for every declared property of every object node (root or nested,
\* $ref properties included), the emitted member ends with the optional
\* marker " | ε" if and only if the property name is absent from that
\* object's required set.
C1_OptionalMarker ==
  \A e \in EmittedNodes :
    IsType(e[1], "object") =>
      LET props == Properties(e[1])
          ms == Members(e[2])
      IN  \A i \in 1..Len(props) :
            /\ i <= Len(ms)
            /\ IsOptional(ms[i]) <=> props[i][1] \notin RequiredNames(e[1])

\* C2: for every array node with items the emitted fragment is [<items>*]
\* exactly when minItems is unset or 0 and maxItems is not declared,
\* [<items>+] exactly when minItems is 1 and maxItems is not declared, and
\* the unquantified [<items>] for every other combination, a declared
\* maxItems of 0 included.
Quantifier(node) ==
  LET unset == ~HasKey(node, "minItems")
      min == Get(node, "minItems", JInt(0))
  IN  IF ~HasKey(node, "maxItems") /\ (unset \/ min = JInt(0)) THEN "*]"
      ELSE IF ~HasKey(node, "maxItems") /\ min = JInt(1) THEN "+]"
      ELSE "]"

C2_ArrayCardinality ==
  \A e \in EmittedNodes :
    IsType(e[1], "array") =>
      /\ Len(e[2]) >= 3
      /\ e[2][1] = "["
      /\ Last(e[2]) = Quantifier(e[1])

\* C3: for every non-empty properties mapping the output of process_object
\* is { m1, m2, ... } where the i-th member belongs to the i-th declared
\* property in declaration order, with exactly one member per declared
\* property, and every such member ($ref properties included) has the form
\* "<name>" : <fragment> with that property's own name.
IsWildcard(m) == m # <<>> /\ m[1] \in {"\"*\" : <any>", "\"*\" : "}

C3_MembersInOrder ==
  \A e \in EmittedNodes :
    IsType(e[1], "object") /\ Properties(e[1]) # <<>> =>
      LET props == Properties(e[1])
          ms == Members(e[2])
      IN  /\ e[2][1] = "{ " /\ Last(e[2]) = " }"
          /\ Len(ms) \in {Len(props), Len(props) + 1}
          /\ Len(ms) = Len(props) + 1 => IsWildcard(Last(ms))
          /\ \A i \in 1..Len(props) : HasKeyOf(ms[i], props[i][1])

\* C5: whenever compiling a named property fails for any cause (a non-map
\* definition, a missing type, an unsupported or malformed type value,
\* missing or malformed items, a failure in a nested property), the failure
\* reaching the caller is a PropertyError that names the property and keeps
\* the original cause; for nested objects the chain names every enclosing
\* property from the outermost to the innermost.
IsRequired(node, name) == name \in RequiredNames(node)

Fails(node, i) ==
  LET p == Properties(node)[i]
  IN  Raised(process_property(p[1], p[2], IsRequired(node, p[1])))

HasFailingProperty(node) ==
  IsType(node, "object") /\ \E i \in 1..Len(Properties(node)) : Fails(node, i)

FirstFailing(node) ==
  CHOOSE i \in 1..Len(Properties(node)) :
    Fails(node, i) /\ \A j \in 1..(i - 1) : ~Fails(node, j)

\* The message the claim asks for when a property of node fails: the names
\* of the enclosing properties, then the cause at the innermost place.
RECURSIVE PropertyError(_)
RECURSIVE CauseIn(_)
CauseIn(definition) ==
  IF HasFailingProperty(definition) THEN PropertyError(definition)
  ELSE IF IsType(definition, "array") /\ HasKey(definition, "items")
  THEN CauseIn(Item(definition, "items"))
  ELSE process_type(definition).out

PropertyError(node) ==
  LET p == Properties(node)[FirstFailing(node)]
  IN  <<"Error processing property '", p[1], "': ">>
      \o (IF IsDict(p[2]) THEN CauseIn(p[2])
          ELSE <<"Invalid property definition for ", p[1]>>)

C5_PropertyErrorChain ==
  pc = "raised" /\ ~InvalidRoot /\ HasFailingProperty(schema) =>
    error = Raise("ValueError", <<"Error processing schema: ">> \o PropertyError(schema))

\* C9 as first stated: for every object node with at least one declared
\* property, additionalProperties true appends exactly one wildcard member
\* "*" : <any> after the declared members, a schema node appends exactly one
\* wildcard member "*" : <compiled type of that node>, and false or absent
\* appends none.
AdditionalOf(node) == Get(node, "additionalProperties", JBool(FALSE))

WildcardAppended(node, frag, fragment) ==
  /\ Len(Members(frag)) = Len(Properties(node)) + 1
  /\ Last(Members(frag)) = fragment
  /\ \A i \in 1..Len(Properties(node)) : ~IsWildcard(Members(frag)[i])

NoWildcard(node, frag) ==
  /\ Len(Members(frag)) = Len(Properties(node))
  /\ \A i \in 1..Len(Members(frag)) : ~IsWildcard(Members(frag)[i])

C9_WildcardForEverySchemaNode ==
  \A e \in EmittedNodes :
    IsType(e[1], "object") /\ Properties(e[1]) # <<>> =>
      LET extra == AdditionalOf(e[1])
      IN  CASE extra = JBool(TRUE) -> WildcardAppended(e[1], e[2], <<"\"*\" : <any>">>)
            [] IsDict(extra) ->
                 WildcardAppended(e[1], e[2], <<"\"*\" : ">> \o process_type(extra).out)
            [] OTHER -> NoWildcard(e[1], e[2])

\* C9 as amended: the wildcard member of a schema node is appended when the
\* node is a non-empty map; an empty map, like false or an absent key,
\* appends none.
C9_WildcardForTruthySchemaNode ==
  \A e \in EmittedNodes :
    IsType(e[1], "object") /\ Properties(e[1]) # <<>> =>
      LET extra == AdditionalOf(e[1])
      IN  CASE extra = JBool(TRUE) -> WildcardAppended(e[1], e[2], <<"\"*\" : <any>">>)
            [] IsDict(extra) /\ extra # EmptyDef ->
                 WildcardAppended(e[1], e[2], <<"\"*\" : ">> \o process_type(extra).out)
            [] OTHER -> NoWildcard(e[1], e[2])

\* A grammar was returned for an object of two declared properties whose
\* additionalProperties is a string node: the wildcard member comes third.
C9_Witness ==
  /\ pc = "returned"
  /\ Len(Properties(schema)) = 2
  /\ AdditionalOf(schema) = StrDef
  /\ Len(Members(gbnf)) = 3
  /\ Members(gbnf)[3] = <<"\"*\" : ", "<string>">>

\* C4 as first stated: compilation succeeds only if every schema node
\* reachable from the root (property definitions, array items and
\* additionalProperties schema nodes) that is not a $ref carries a recognized
\* type; a node lacking type makes it fail with MissingType, a node with any
\* other type value makes it fail with UnsupportedType.
RECURSIVE Reachable(_)
Reachable(node) ==
  LET below(x) == IF IsDict(x) /\ ~IsRef(x) THEN {x} \cup Reachable(x) ELSE {}
  IN  CASE IsType(node, "object") ->
             UNION {below(Properties(node)[i][2]) : i \in 1..Len(Properties(node))}
             \cup below(AdditionalOf(node))
        [] IsType(node, "array") /\ HasKey(node, "items") -> below(Item(node, "items"))
        [] OTHER -> {}

LacksType(node) == IsDict(node) /\ ~HasKey(node, "type")
UnknownType(node) ==
  IsDict(node) /\ HasKey(node, "type") /\ Item(node, "type") \notin {JStr(t) : t \in HandledTypes}

MissingType == error.exc = "ValueError" /\ Last(error.out) = "Missing type in definition"
UnsupportedType ==
  error.exc = "ValueError" /\ Len(error.out) >= 2
  /\ error.out[Len(error.out) - 1] = "Unsupported type: "

RECURSIVE Visited(_)
Visited(node) ==
  LET below(x) == IF IsRef(x) THEN {} ELSE {x} \cup Visited(x)
  IN  CASE IsType(node, "object") /\ Properties(node) # <<>> ->
             UNION {below(Properties(node)[i][2]) : i \in 1..Len(Properties(node))}
             \cup (IF Truthy(AdditionalOf(node)) /\ ~IsBool(AdditionalOf(node))
                   THEN below(AdditionalOf(node)) ELSE {})
        [] IsType(node, "array") /\ HasKey(node, "items") -> below(Item(node, "items"))
        [] OTHER -> {}

Defect(node) ==
  IF ~IsDict(node) THEN "NotAMap"
  ELSE IF ~HasKey(node, "type") THEN "MissingType"
  ELSE IF Item(node, "type").k \in {"list", "dict"} THEN "UnhashableType"
  ELSE IF Item(node, "type") \notin {JStr(t) : t \in HandledTypes} THEN "UnsupportedType"
  ELSE IF IsType(node, "array") /\ ~HasKey(node, "items") THEN "MissingItems"
  ELSE "none"

RECURSIVE Retarget(_)
Retarget(node) ==
  IF ~IsDict(node) THEN node
  ELSE IF IsRef(node) THEN JDict(<< <<"$ref", JStr("#/definitions/other")>> >>)
  ELSE JDict([i \in 1..Len(node.v) |-> <<node.v[i][1], Retarget(node.v[i][2])>>])

Complete(frag) ==
  \/ frag = <<"{}">>
  \/ /\ Len(frag) >= 3 /\ frag[1] = "{ " /\ Last(frag) = " }"
     /\ Len(Members(frag)) >= Len(Properties(schema))

OneOutcome ==
  /\ pc \in {"called", "try"} => gbnf = None /\ error = None
  /\ pc = "returned" => error = None /\ Complete(gbnf)
  /\ pc = "raised" => gbnf = None /\ error # None /\ error.exc = "ValueError"
  /\ pc = "returned" =>
       /\ \A i \in 1..Len(Properties(schema)) :
            IsRef(Properties(schema)[i][2]) => Members(gbnf)[i] = <<"<ref>">>
       /\ process_object(Retarget(schema)) = Return(gbnf)
  /\ pc = "raised" /\ ~InvalidRoot => Raised(process_object(Retarget(schema)))

C10_TerminatesWithOneOutcome == <>Done /\ []OneOutcome

\* A grammar was returned for a schema with a property that points back to
\* the root and holds a type that would not compile.
C10_Witness ==
  /\ pc = "returned"
  /\ \E i \in 1..Len(Properties(schema)) : Properties(schema)[i][2] = RefJunkDef
  /\ gbnf = <<"{ ", "<ref>", " }">>

====
